---- MODULE Spec2Model ----
(***************************************************************************)
(* Model of the certmagic storage backend of azblob.go: the CaddyAzblob    *)
(* methods Lock, Unlock, Store, Load, Delete, Exists, List and Stat over a  *)
(* shared Azure blob container.                                             *)
(*                                                                          *)
(* The remote container is the shared state.  Every remote request of the   *)
(* client library is one atomic step; its outcome is its documented one     *)
(* unless the environment injects a failure (net) or the caller's context   *)
(* is cancelled (ctx).                                                      *)
(*                                                                          *)
(* Texts (keys, error messages) are sequences of tokens, payloads are       *)
(* sequences of bytes.  A Go nil slice and an empty slice are both <<>>.    *)
(***************************************************************************)
EXTENDS Integers, Sequences, FiniteSets, TLC

\* ------------------------------------------------------------------ bounds
NumInstances == 2
MaxPayloadLen == 1

Instances == 1..NumInstances
ByteValues == {0, 1}

RECURSIVE SeqsUpTo(_, _)
SeqsUpTo(S, n) ==
    IF n = 0 THEN {<<>>}
    ELSE LET shorter == SeqsUpTo(S, n - 1)
         IN  shorter \cup {Append(s, x) : s \in shorter, x \in S}

Payloads == SeqsUpTo(ByteValues, MaxPayloadLen)

\* Blob names used as keys; the second has the first as a substring.
KeyA  == <<"a">>
KeyAB == <<"a", "b">>
Keys  == {KeyA, KeyAB}
\* The service lists blob names in lexicographic order.
KeyOrder == <<KeyA, KeyAB>>

Contexts == {"live", "cancelled"}
\* Outcome the environment gives a remote request: the service handles it,
\* or the request fails (here: the service answers 503).
NetOutcomes == {"ok", "busy"}

\* A listing request has one more outcome: the service answers with a first
\* segment only and a marker for the rest (more names than one segment holds,
\* or a listing the service chooses to split).
ListOutcomes == NetOutcomes \cup {"partial"}

\* ------------------------------------------------------------------ errors
Nil == <<>>
\* fs.ErrNotExist
ErrNotExist == <<"file", "does", "not", "exist">>
\* Text of the service's 404 for a missing blob, as the client renders it.
ErrBlobNotFound ==
    <<"ServiceCode=BlobNotFound", "RESPONSE", "Status:",
      "404", "The", "specified", "blob", "does", "not", "exist">>
\* Text of a failed request that is no 404 of a blob.
ErrServerBusy ==
    <<"ServiceCode=ServerBusy", "RESPONSE", "Status:",
      "503", "The", "server", "is", "busy">>
ErrCanceled == <<"context", "canceled">>
ErrUnexpectedEOF == <<"unexpected", "EOF">>

\* strings.Contains(s, substr)
Contains(s, substr) ==
    \E i \in 0..(Len(s) - Len(substr)) :
        SubSeq(s, i + 1, i + Len(substr)) = substr

\* DoesBlobExists(err)
DoesBlobExists(err) ==
    IF err = Nil THEN TRUE
    ELSE ~Contains(err, <<"404", "The", "specified", "blob", "does", "not", "exist">>)

\* ------------------------------------------------------------------ remote
\* A blob slot of the container.
Absent == [exists |-> FALSE, body |-> <<>>]
Blob(p) == [exists |-> TRUE, body |-> p]

\* Error of a remote request made with context ctx under outcome net, before
\* the service looks at the blob.
RequestErr(ctx, net) ==
    IF ctx = "cancelled" THEN ErrCanceled
    ELSE IF net = "busy" THEN ErrServerBusy
    ELSE Nil

\* blobURL.Upload(ctx, bytes.NewReader(value), ...): the blob after it, and the error.
\* A request that fails leaves the blob as it was.
Upload(slot, ctx, net, value) ==
    IF RequestErr(ctx, net) # Nil THEN [slot |-> slot, err |-> RequestErr(ctx, net)]
    ELSE [slot |-> Blob(value), err |-> Nil]

\* blobURL.Download(ctx, offset, count, ...): count 0 (CountToEnd) reads to the end.
Download(slot, ctx, net, offset, count) ==
    IF RequestErr(ctx, net) # Nil THEN [ok |-> FALSE, body |-> <<>>, err |-> RequestErr(ctx, net)]
    ELSE IF ~slot.exists THEN [ok |-> FALSE, body |-> <<>>, err |-> ErrBlobNotFound]
    ELSE LET last == IF count = 0 THEN Len(slot.body)
                     ELSE IF offset + count < Len(slot.body) THEN offset + count
                     ELSE Len(slot.body)
         IN  [ok |-> TRUE, body |-> SubSeq(slot.body, offset + 1, last), err |-> Nil]

\* blobURL.Delete(ctx, ...)
DeleteBlob(slot, ctx, net) ==
    IF RequestErr(ctx, net) # Nil THEN [slot |-> slot, err |-> RequestErr(ctx, net)]
    ELSE IF ~slot.exists THEN [slot |-> slot, err |-> ErrBlobNotFound]
    ELSE [slot |-> Absent, err |-> Nil]

\* blobURL.GetProperties(ctx, ...): a nil response comes with every error.
NilResp == [valid |-> FALSE]
GetProperties(slot, ctx, net) ==
    IF RequestErr(ctx, net) # Nil THEN [resp |-> NilResp, err |-> RequestErr(ctx, net)]
    ELSE IF ~slot.exists THEN [resp |-> NilResp, err |-> ErrBlobNotFound]
    ELSE [resp |-> [valid |-> TRUE], err |-> Nil]

\* ContainerURL.ListBlobsFlatSegment(ctx, Marker{}, ListBlobsSegmentOptions{}):
\* the segment that starts the listing.  Under outcome "partial" it ends
\* before the last name and carries a marker for the rest.
ListBlobsFlatSegment(cont, ctx, net) ==
    LET all == SelectSeq(KeyOrder, LAMBDA k : cont[k].exists)
    IN  IF RequestErr(ctx, net) # Nil
        THEN [names |-> <<>>, marker |-> FALSE, err |-> RequestErr(ctx, net)]
        ELSE IF net = "partial" /\ Len(all) > 0
        THEN [names |-> SubSeq(all, 1, Len(all) - 1), marker |-> TRUE, err |-> Nil]
        ELSE [names |-> all, marker |-> FALSE, err |-> Nil]

\* ------------------------------------------------------------------ state
VARIABLES
    container,  \* the remote container: blob name -> slot
    written,    \* per key, what the callers were told: the payload of the last Store that
                \* returned nil, unless a later Delete returned nil
    pending,    \* the Stat call that has probed and not yet loaded (one at a time);
                \* every other operation may run between its two requests
    held,       \* instances whose Lock returned nil and whose Unlock has not since
    released,   \* instance whose successful Unlock of its lock was the last lock operation, or 0
    call,       \* the operation that returned last, with its inputs and results
    config      \* per instance, the fields of its CaddyAzblob value

vars == <<container, written, pending, held, released, call, config>>

\* certmagic.KeyInfo{}
ZeroKeyInfo == [Key |-> <<>>, Modified |-> "zero", Size |-> 0, IsTerminal |-> FALSE]

NoPending ==
    [active |-> FALSE, key |-> <<>>, ctx |-> "live", net |-> "ok",
     resp |-> NilResp, err |-> Nil, existed |-> FALSE]

NoCall ==
    [op |-> "none", inst |-> 0, key |-> <<>>, ctx |-> "live", value |-> <<>>,
     recursive |-> FALSE, net |-> "ok", rd |-> FALSE,
     existed |-> FALSE, same |-> FALSE, probe |-> NoPending,
     err |-> Nil, data |-> <<>>, found |-> FALSE, names |-> <<>>,
     info |-> ZeroKeyInfo, panicked |-> FALSE,
     heldBefore |-> {}, releasedBefore |-> 0]

\* The record of a call of op on key with context ctx.
CallOf(op, key, ctx) ==
    [NoCall EXCEPT !.op = op, !.key = key, !.ctx = ctx]

\* ------------------------------------------------------------------ provisioning
\* os.Getenv of the three AZBLOB_ variables
Environment ==
    [AccountName |-> "envaccount", AccountKey |-> "envkey", ContainerName |-> "certs"]

\* The fields UnmarshalCaddyfile has set before Provision runs: instance 1 is
\* configured in full, every other instance takes all from the environment.
Unmarshalled(i) ==
    IF i = 1
    THEN [AccountName |-> "envaccount", AccountKey |-> "envkey", ContainerName |-> "certs"]
    ELSE [AccountName |-> "", AccountKey |-> "", ContainerName |-> ""]

\* CaddyAzblob.Provision: uuid is the value uuid.NewString() gives this call
Provision(fields, env, uuid) ==
    [AccountName   |-> IF fields.AccountName = "" THEN env.AccountName ELSE fields.AccountName,
     AccountKey    |-> IF fields.AccountKey = "" THEN env.AccountKey ELSE fields.AccountKey,
     ContainerName |-> IF fields.ContainerName = "" THEN env.ContainerName
                       ELSE fields.ContainerName,
     UUID          |-> uuid]

\* The instances as provisioned: uuid.NewString() gives each its own value.
Provisioned == [i \in Instances |-> Provision(Unmarshalled(i), Environment, i)]

\* ------------------------------------------------------------------ handlers
\* Lock as it would answer if a lease were acquired and Unlock left it in place.
LockResultStale(i, key) ==
    IF held \ {i} # {} \/ released \notin {0, i}
    THEN <<"ServiceCode=LeaseAlreadyPresent", "RESPONSE", "Status:",
           "409", "There", "is", "already", "a", "lease", "present">>
    ELSE Nil

\* CaddyAzblob.Lock: the result
LockResult(i, key) == Nil

\* CaddyAzblob.Unlock: the result
UnlockResult(i, key) == Nil

\* Store that uploads only where no blob is yet (If-None-Match: *).
StoreResultIfNoneMatch(slot, ctx, net, value) ==
    IF RequestErr(ctx, net) = Nil /\ slot.exists
    THEN [slot |-> slot,
          err |-> <<"ServiceCode=BlobAlreadyExists", "RESPONSE", "Status:",
                    "409", "The", "specified", "blob", "already", "exists">>]
    ELSE Upload(slot, ctx, net, value)

\* Store that appends the payload to the blob that is there.
StoreResultAppend(slot, ctx, net, value) ==
    Upload(slot, ctx, net, slot.body \o value)

\* CaddyAzblob.Store: the slot of key after it, and the error returned
StoreResult(slot, ctx, net, value) == Upload(slot, ctx, net, value)

\* Load reading from the second byte on.
LoadResultOffset(slot, ctx, net, rd) ==
    LET get == Download(slot, ctx, net, 1, 0)
    IN  IF ~DoesBlobExists(get.err) THEN [data |-> <<>>, err |-> ErrNotExist]
        ELSE IF get.err # Nil THEN [data |-> <<>>, err |-> ErrNotExist]
        ELSE IF rd THEN [data |-> <<>>, err |-> ErrUnexpectedEOF]
        ELSE [data |-> get.body, err |-> Nil]

\* Load handing the error of the download on as it is.
LoadResultRaw(slot, ctx, net, rd) ==
    LET get == Download(slot, ctx, net, 0, 0)
    IN  IF get.err # Nil THEN [data |-> <<>>, err |-> get.err]
        ELSE IF rd THEN [data |-> <<>>, err |-> ErrUnexpectedEOF]
        ELSE [data |-> get.body, err |-> Nil]

\* CaddyAzblob.Load: rd says that reading the response body fails
LoadResult(slot, ctx, net, rd) ==
    LET get == Download(slot, ctx, net, 0, 0)
    IN  IF ~DoesBlobExists(get.err) THEN [data |-> <<>>, err |-> ErrNotExist]
        ELSE IF get.err # Nil THEN [data |-> <<>>, err |-> ErrNotExist]
        ELSE IF rd THEN [data |-> <<>>, err |-> ErrUnexpectedEOF]
        ELSE [data |-> get.body, err |-> Nil]

\* Delete that takes the 404 of an absent blob for success.
DeleteResultIdempotent(slot, ctx, net) ==
    LET r == DeleteBlob(slot, ctx, net)
    IN  IF DoesBlobExists(r.err) THEN r ELSE [slot |-> r.slot, err |-> Nil]

\* CaddyAzblob.Delete
DeleteResult(slot, ctx, net) == DeleteBlob(slot, ctx, net)

\* List that keeps the names that start with prefix.
ListResultFiltered(cont, ctx, net, prefix, recursive) ==
    LET ls == ListBlobsFlatSegment(cont, "live", net)
    IN  IF ls.err # Nil THEN [keys |-> <<>>, err |-> ls.err]
        ELSE [keys |-> SelectSeq(ls.names,
                                 LAMBDA v : /\ Len(v) >= Len(prefix)
                                            /\ SubSeq(v, 1, Len(prefix)) = prefix),
              err |-> Nil]

\* CaddyAzblob.List: the request is made with context.TODO(), not with ctx
ListResult(cont, ctx, net, prefix, recursive) ==
    LET ls == ListBlobsFlatSegment(cont, "live", net)
    IN  IF ls.err # Nil THEN [keys |-> <<>>, err |-> ls.err]
        ELSE [keys |-> ls.names, err |-> Nil]

\* Exists that looks for the name equal to key.
ExistsResultExact(cont, ctx, net, key) ==
    LET ls == ListResult(cont, ctx, net, key, TRUE)
    IN  IF ls.err # Nil THEN FALSE
        ELSE \E n \in 1..Len(ls.keys) : ls.keys[n] = key

\* Exists that probes the blob itself when the listing fails.
ExistsResultProbeOnError(cont, ctx, net, key) ==
    LET ls == ListResult(cont, ctx, net, key, TRUE)
    IN  IF ls.err # Nil THEN GetProperties(cont[key], "live", "ok").err = Nil
        ELSE \E n \in 1..Len(ls.keys) : Contains(ls.keys[n], key)

\* CaddyAzblob.Exists
ExistsResult(cont, ctx, net, key) ==
    LET ls == ListResult(cont, ctx, net, key, TRUE)
    IN  IF ls.err # Nil THEN FALSE
        ELSE \E n \in 1..Len(ls.keys) : Contains(ls.keys[n], key)

\* CaddyAzblob.Stat, lines 207-211: whether it returns right after the probe
StatReturnsAfterProbe(err) == err # Nil /\ ~DoesBlobExists(err)

\* Stat that builds its record from the probe whatever Load returned.
StatOutcomeIgnoresLoadErr(key, resp, load) ==
    IF ~resp.valid THEN [info |-> ZeroKeyInfo, err |-> load.err, panicked |-> FALSE]
    ELSE [info |-> [Key |-> key, Modified |-> "LastModified",
                    Size |-> Len(load.data), IsTerminal |-> TRUE],
          err |-> Nil, panicked |-> FALSE]

\* Stat leaving the size of the record unset.
StatOutcomeNoSize(key, resp, load) ==
    IF load.err # Nil THEN [info |-> ZeroKeyInfo, err |-> load.err, panicked |-> FALSE]
    ELSE IF ~resp.valid THEN [info |-> ZeroKeyInfo, err |-> Nil, panicked |-> TRUE]
    ELSE [info |-> [Key |-> key, Modified |-> "LastModified",
                    Size |-> 0, IsTerminal |-> TRUE],
          err |-> Nil, panicked |-> FALSE]

\* CaddyAzblob.Stat, lines 213-224: the outcome once Load has returned.
\* resp.LastModified() on the nil response of a failed probe is a nil
\* pointer dereference: the call panics.
StatOutcome(key, resp, load) ==
    IF load.err # Nil THEN [info |-> ZeroKeyInfo, err |-> load.err, panicked |-> FALSE]
    ELSE IF ~resp.valid THEN [info |-> ZeroKeyInfo, err |-> Nil, panicked |-> TRUE]
    ELSE [info |-> [Key |-> key, Modified |-> "LastModified",
                    Size |-> Len(load.data), IsTerminal |-> TRUE],
          err |-> Nil, panicked |-> FALSE]

\* ------------------------------------------------------------------ actions
\* A request made with a cancelled context is aborted whatever the network
\* would have done, so the outcome of the network is left at "ok" for it.
Aborted(ctx, net) == ctx = "cancelled" => net = "ok"

\* Lock that gives the instance a new token on every call.
LockRegenerating(i, ctx, key) ==
    /\ call' = [CallOf("Lock", key, ctx) EXCEPT
                    !.inst = i, !.err = Nil,
                    !.heldBefore = held, !.releasedBefore = released]
    /\ held' = held \cup {i}
    /\ released' = 0
    /\ config' = [config EXCEPT ![i].UUID = @ + NumInstances]
    /\ UNCHANGED <<container, written, pending>>

Lock(i, ctx, key) ==
    LET err == LockResult(i, key)
    IN  /\ call' = [CallOf("Lock", key, ctx) EXCEPT
                        !.inst = i, !.err = err,
                        !.heldBefore = held, !.releasedBefore = released]
        /\ held' = IF err = Nil THEN held \cup {i} ELSE held
        /\ released' = 0
        /\ UNCHANGED <<container, written, pending, config>>

Unlock(i, ctx, key) ==
    LET err == UnlockResult(i, key)
    IN  /\ call' = [CallOf("Unlock", key, ctx) EXCEPT
                        !.inst = i, !.err = err,
                        !.heldBefore = held, !.releasedBefore = released]
        /\ held' = IF err = Nil THEN held \ {i} ELSE held
        /\ released' = IF err = Nil /\ i \in held THEN i ELSE 0
        /\ UNCHANGED <<container, written, pending, config>>

Store(ctx, net, key, value) ==
    LET r == StoreResult(container[key], ctx, net, value)
    IN  /\ Aborted(ctx, net)
        /\ container' = [container EXCEPT ![key] = r.slot]
        /\ written' = IF r.err = Nil THEN [written EXCEPT ![key] = Blob(value)] ELSE written
        /\ call' = [CallOf("Store", key, ctx) EXCEPT
                        !.value = value, !.net = net,
                        !.existed = container[key].exists,
                        !.same = (container[key] = Blob(value)), !.err = r.err]
        /\ UNCHANGED <<pending, held, released, config>>

Load(ctx, net, rd, key) ==
    LET r == LoadResult(container[key], ctx, net, rd)
    IN  /\ Aborted(ctx, net)
        /\ rd => Download(container[key], ctx, net, 0, 0).ok
        /\ call' = [CallOf("Load", key, ctx) EXCEPT
                        !.net = net, !.rd = rd, !.existed = container[key].exists,
                        !.data = r.data, !.err = r.err]
        /\ UNCHANGED <<container, written, pending, held, released, config>>

\* Delete that removes every blob whose name starts with key.
DeleteByPrefix(ctx, net, key) ==
    LET r == DeleteResult(container[key], ctx, net)
    IN  /\ Aborted(ctx, net)
        /\ container' = [k \in Keys |->
                            IF r.err = Nil /\ SubSeq(k, 1, Len(key)) = key
                            THEN Absent ELSE container[k]]
        /\ written' = IF r.err = Nil THEN [written EXCEPT ![key] = Absent] ELSE written
        /\ call' = [CallOf("Delete", key, ctx) EXCEPT
                        !.net = net, !.existed = container[key].exists, !.err = r.err]
        /\ UNCHANGED <<pending, held, released, config>>

Delete(ctx, net, key) ==
    LET r == DeleteResult(container[key], ctx, net)
    IN  /\ Aborted(ctx, net)
        /\ container' = [container EXCEPT ![key] = r.slot]
        /\ written' = IF r.err = Nil THEN [written EXCEPT ![key] = Absent] ELSE written
        /\ call' = [CallOf("Delete", key, ctx) EXCEPT
                        !.net = net, !.existed = container[key].exists, !.err = r.err]
        /\ UNCHANGED <<pending, held, released, config>>

Exists(ctx, net, key) ==
    /\ call' = [CallOf("Exists", key, ctx) EXCEPT
                    !.net = net, !.existed = container[key].exists,
                    !.found = ExistsResult(container, ctx, net, key)]
    /\ UNCHANGED <<container, written, pending, held, released, config>>

List(ctx, net, prefix, recursive) ==
    LET r == ListResult(container, ctx, net, prefix, recursive)
    IN  /\ call' = [CallOf("List", prefix, ctx) EXCEPT
                        !.net = net, !.recursive = recursive,
                        !.names = r.keys, !.err = r.err]
        /\ UNCHANGED <<container, written, pending, held, released, config>>

\* Stat up to the return of GetProperties (lines 205-211).
StatProbe(ctx, net, key) ==
    LET p == GetProperties(container[key], ctx, net)
        probed == [active |-> TRUE, key |-> key, ctx |-> ctx, net |-> net,
                   resp |-> p.resp, err |-> p.err, existed |-> container[key].exists]
    IN  /\ Aborted(ctx, net)
        /\ ~pending.active
        /\ IF StatReturnsAfterProbe(p.err)
           THEN /\ call' = [CallOf("Stat", key, ctx) EXCEPT
                                !.net = net, !.existed = container[key].exists,
                                !.probe = probed, !.err = p.err]
                /\ UNCHANGED pending
           ELSE /\ pending' = probed
                /\ UNCHANGED call
        /\ UNCHANGED <<container, written, held, released, config>>

\* Stat from its Load to its return (lines 213-224).  The context of the
\* call may have been cancelled since the probe.
StatLoad(ctx, net, rd) ==
    /\ pending.active
    /\ Aborted(ctx, net)
    /\ pending.ctx = "cancelled" => ctx = "cancelled"
    /\ rd => Download(container[pending.key], ctx, net, 0, 0).ok
    /\ LET load == LoadResult(container[pending.key], ctx, net, rd)
           out  == StatOutcome(pending.key, pending.resp, load)
       IN  call' = [CallOf("Stat", pending.key, ctx) EXCEPT
                        !.net = net, !.rd = rd,
                        !.existed = container[pending.key].exists,
                        !.probe = pending,
                        !.info = out.info, !.err = out.err, !.panicked = out.panicked]
    /\ pending' = NoPending
    /\ UNCHANGED <<container, written, held, released, config>>

\* ------------------------------------------------------------------ specifications
Slots == {Absent} \cup {Blob(p) : p \in Payloads}

Init ==
    /\ container = [k \in Keys |-> Absent]
    /\ written = container
    /\ pending = NoPending
    /\ held = {}
    /\ released = 0
    /\ call = NoCall
    /\ config = Provisioned

Next ==
    \/ \E ctx \in Contexts, net \in NetOutcomes, key \in Keys, value \in Payloads :
            Store(ctx, net, key, value)
    \/ \E ctx \in Contexts, net \in NetOutcomes, rd \in BOOLEAN, key \in Keys :
            Load(ctx, net, rd, key)
    \/ \E ctx \in Contexts, net \in NetOutcomes, key \in Keys :
            Delete(ctx, net, key)
    \/ \E ctx \in Contexts, net \in ListOutcomes, key \in Keys :
            Exists(ctx, net, key)
    \/ \E ctx \in Contexts, net \in ListOutcomes, prefix \in Keys, recursive \in BOOLEAN :
            List(ctx, net, prefix, recursive)
    \/ \E ctx \in Contexts, net \in NetOutcomes, key \in Keys :
            StatProbe(ctx, net, key)
    \/ \E ctx \in Contexts, net \in NetOutcomes, rd \in BOOLEAN :
            StatLoad(ctx, net, rd)

Spec == Init /\ [][Next]_vars

\* The locking operations, over any content of the container.
LockInit ==
    /\ container \in [Keys -> Slots]
    /\ written = container
    /\ pending = NoPending
    /\ held = {}
    /\ released = 0
    /\ call = NoCall
    /\ config = Provisioned

LockNext ==
    \/ \E i \in Instances, ctx \in Contexts, key \in Keys : Lock(i, ctx, key)
    \/ \E i \in Instances, ctx \in Contexts, key \in Keys : Unlock(i, ctx, key)

LockSpec == LockInit /\ [][LockNext]_vars

\* ------------------------------------------------------------------ properties
\* The request of a call reached the service: live context, no failure injected.
Reached(c) == c.ctx = "live" /\ c.net = "ok"

\* C1: mutual exclusion of Lock.  At most one instance has a successful, not
\* yet released Lock, and a Lock by an instance while another instance holds
\* one returns an error.
C1_MutualExclusion ==
    /\ Cardinality(held) <= 1
    /\ (call.op = "Lock" /\ call.heldBefore \ {call.inst} # {}) => call.err # Nil

\* C2: Unlock succeeds only for the current holder.  An Unlock by an instance
\* that holds no lock returns an error and leaves the lock state unchanged.
C2_UnlockOnlyByHolder ==
    (call.op = "Unlock" /\ call.inst \notin call.heldBefore)
        => (call.err # Nil /\ held = call.heldBefore)

\* C3: lock handover.  When the last lock operation was the successful Unlock
\* of an instance that held the lock, the next Lock by another instance
\* returns success and that instance then holds the lock.
C3_Handover ==
    (call.op = "Lock" /\ call.releasedBefore \notin {0, call.inst})
        => (call.err = Nil /\ call.inst \in held)

C3_Witness ==
    /\ call.op = "Lock"
    /\ call.releasedBefore \notin {0, call.inst}
    /\ call.heldBefore = {}
    /\ call.err = Nil
    /\ held = {call.inst}

\* C4: round trip.  A Load of a key whose last successful Store, not followed
\* by a successful Delete, stored p returns exactly p (the empty payload
\* included) and no error, when its download and the read of the body go through.
C4_RoundTrip ==
    (call.op = "Load" /\ Reached(call) /\ ~call.rd /\ written[call.key].exists)
        => (call.err = Nil /\ call.data = written[call.key].body)

C4_Witness ==
    /\ call.op = "Load" /\ Reached(call) /\ ~call.rd
    /\ written[call.key].exists
    /\ written[call.key].body # <<>>
    /\ call.err = Nil
    /\ call.data = written[call.key].body

\* C5: Load of an absent key returns NotFound.  A Load of a key that was
\* never stored, or whose Delete succeeded after its last Store, returns
\* fs.ErrNotExist and no payload.
C5_LoadAbsentNotFound ==
    (call.op = "Load" /\ ~written[call.key].exists)
        => (call.err = ErrNotExist /\ call.data = <<>>)

C5_Witness ==
    /\ call.op = "Load" /\ Reached(call)
    /\ ~written[call.key].exists
    /\ \E k \in Keys : written[k].exists
    /\ call.err = ErrNotExist
    /\ call.data = <<>>

\* C6: Load keeps not-found apart from other failures.  Load returns
\* fs.ErrNotExist only when its download reached the service and the object
\* was absent; a download that fails for another reason gives another error.
C6_LoadNotFoundOnlyWhenAbsent ==
    (call.op = "Load" /\ call.err = ErrNotExist)
        => (Reached(call) /\ ~call.existed)

\* C7: Exists follows Store and Delete.  Right after a successful Store(k, p)
\* an Exists(k) whose listing goes through returns true; right after a
\* successful Delete(k) such an Exists(k) returns false and a Load(k) returns
\* fs.ErrNotExist.
C7_ExistsFollowsStoreAndDelete ==
    [][ /\ (/\ call.op = "Store" /\ call.err = Nil
            /\ call'.op = "Exists" /\ call'.key = call.key /\ call'.net = "ok")
               => call'.found
        /\ (/\ call.op = "Delete" /\ call.err = Nil
            /\ call'.op = "Exists" /\ call'.key = call.key /\ call'.net = "ok")
               => ~call'.found
        /\ (/\ call.op = "Delete" /\ call.err = Nil
            /\ call'.op = "Load" /\ call'.key = call.key)
               => call'.err = ErrNotExist
      ]_vars

\* C8: Stat after Store.  A Stat of a key that was stored when it probed and
\* whose last successful Store stored p, with both requests and the read of
\* the body going through, returns no error and the record with Key = k,
\* Size = len(p) and IsTerminal = true.
C8_StatAfterStore ==
    (/\ call.op = "Stat"
     /\ Reached(call.probe) /\ call.probe.existed
     /\ Reached(call) /\ ~call.rd
     /\ written[call.key].exists)
        => (/\ ~call.panicked
            /\ call.err = Nil
            /\ call.info.Key = call.key
            /\ call.info.Size = Len(written[call.key].body)
            /\ call.info.IsTerminal)

C8_Witness ==
    /\ call.op = "Stat"
    /\ Reached(call.probe) /\ call.probe.existed
    /\ Reached(call) /\ ~call.rd
    /\ written[call.key].exists
    /\ call.err = Nil
    /\ call.info.Key = call.key
    /\ call.info.Size = Len(written[call.key].body)
    /\ call.info.Size > 0
    /\ call.info.IsTerminal

\* C9: Stat failure conditions.  A Stat whose probe failed with an error
\* other than not-found, or whose Load failed, returns an error and no
\* record; no Stat gets past a failed probe to the building of a record.
C9_StatFailsOnProbeOrLoadError ==
    LET probeFailed == call.probe.err # Nil
        loadFailed  == /\ ~StatReturnsAfterProbe(call.probe.err)
                       /\ (~Reached(call) \/ call.rd \/ ~call.existed)
    IN  (call.op = "Stat" /\ (probeFailed \/ loadFailed))
            => (call.err # Nil /\ ~call.panicked /\ call.info = ZeroKeyInfo)

\* C10: Stat of an absent key reports NotFound.  A Stat of a key with no
\* object, at its probe and at its Load, fails with fs.ErrNotExist, the
\* error Load returns for it.
C10_StatAbsentNotFound ==
    (call.op = "Stat" /\ ~call.probe.existed /\ ~call.existed)
        => call.err = ErrNotExist

\* C11: cancellation is honored by every operation.  A Store, Load, Delete,
\* List or Stat called with a cancelled context returns the cancellation
\* error, and an Exists called with one does not answer from a listing.
C11_CancellationHonored ==
    /\ (call.op \in {"Store", "Load", "Delete", "List", "Stat"} /\ call.ctx = "cancelled")
          => call.err = ErrCanceled
    /\ (call.op = "Exists" /\ call.ctx = "cancelled") => ~call.found

\* C12: Delete of an absent key fails.  A Delete whose request does not end
\* in success returns an error; for a key with no object it returns one also
\* when the request reaches the service, and no object is under the key after.
C12_DeleteAbsentFails ==
    (call.op = "Delete" /\ (~call.existed \/ ~Reached(call)))
        => (/\ call.err # Nil
            /\ container[call.key].exists = call.existed)

C12_Witness ==
    /\ call.op = "Delete" /\ Reached(call) /\ ~call.existed
    /\ call.err = ErrBlobNotFound
    /\ container[call.key] = Absent
    /\ \E k \in Keys : container[k].exists

\* C13: last writer wins.  After a Store that returned nil the object under
\* its key is exactly its payload, whatever was there before, and a Store
\* whose request reaches the service returns nil also when the key exists.
C13_LastWriterWins ==
    /\ (call.op = "Store" /\ call.err = Nil) => container[call.key] = Blob(call.value)
    /\ (call.op = "Store" /\ Reached(call)) => call.err = Nil

C13_Witness ==
    /\ call.op = "Store" /\ Reached(call)
    /\ call.existed /\ ~call.same
    /\ call.err = Nil
    /\ container[call.key] = Blob(call.value)

\* C14: Store is idempotent.  A successful Store(k, p) on a container where
\* k already holds p (as after a Store(k, p)) leaves the whole container, and
\* so the result of Load(k), as it was.
C14_StoreIdempotent ==
    [][ (call'.op = "Store" /\ call'.err = Nil /\ call'.same)
            => /\ container' = container
               /\ LoadResult(container'[call'.key], "live", "ok", FALSE)
                      = LoadResult(container[call'.key], "live", "ok", FALSE)
               /\ LoadResult(container'[call'.key], "live", "ok", FALSE).data = call'.value
      ]_vars

C14_Witness ==
    /\ call.op = "Store" /\ call.err = Nil /\ call.same
    /\ call.value # <<>>
    /\ container[call.key] = Blob(call.value)

Listed(net) ==
    LET all == SelectSeq(KeyOrder, LAMBDA k : container[k].exists)
    IN  IF net = "partial" /\ Len(all) > 0 THEN SubSeq(all, 1, Len(all) - 1) ELSE all

C17_ListReturnsAll ==
    (call.op = "List" /\ call.err = Nil)
        => {call.names[n] : n \in 1..Len(call.names)} = {k \in Keys : container[k].exists}

\* C17, amended: List ignores its arguments and returns the first segment of
\* the flat listing.  For every prefix, recursive and context a List whose
\* request does not fail returns nil and the names of the segment the
\* service answers with, unfiltered: all blobs when the listing comes in one
\* segment, and only those before the marker when the service splits it.
C17_ListReturnsFirstSegment ==
    /\ (call.op = "List" /\ call.net # "busy")
          => (call.err = Nil /\ call.names = Listed(call.net))
    /\ (call.op = "List" /\ call.net = "ok")
          => {call.names[n] : n \in 1..Len(call.names)} = {k \in Keys : container[k].exists}

C17_Witness ==
    /\ call.op = "List" /\ call.net = "ok"
    /\ call.key = KeyAB /\ ~call.recursive
    /\ call.err = Nil
    /\ call.names = <<KeyA, KeyAB>>

\* Whether the Stat that returned last got as far as its Load.
StatLoaded == call.op = "Stat" /\ ~StatReturnsAfterProbe(call.probe.err)

\* C18: Stat under an interleaved Delete.  A Stat whose Load runs when the
\* object is absent returns fs.ErrNotExist and no record, also when its
\* probe found the object.
C18_StatAfterDelete ==
    (StatLoaded /\ ~call.existed)
        => (call.err = ErrNotExist /\ call.info = ZeroKeyInfo /\ ~call.panicked)

C18_Witness ==
    /\ StatLoaded
    /\ call.probe.existed /\ call.probe.err = Nil
    /\ ~call.existed
    /\ call.err = ErrNotExist
    /\ call.info = ZeroKeyInfo

C20_ExistsFalseOnListError ==
    (call.op = "Exists" /\ call.net = "busy") => ~call.found

C20_Witness ==
    /\ call.op = "Exists" /\ call.net = "busy"
    /\ call.existed
    /\ ~call.found

====
